---- MODULE Spec2Model ----
(***************************************************************************)
(* A model of edccchk (src/edccchk.c): the EDC/ECC lookup tables, the EDC  *)
(* checksum, the P/Q parity check, the per-sector classification and the   *)
(* queue/refill loop of ecmify.                                            *)
(*                                                                         *)
(* Conventions.  A byte array is a tuple, element i of the C array being   *)
(* the tuple's element i + 1; Array(f) is the tuple of a function on 1..n, *)
(* every element computed once.  A C pointer is a pair <<array, offset>>,  *)
(* p[i] being Deref(p, i).  A uint32_t is a pair <<hi, lo>> of 16-bit      *)
(* halves (TLC's integers are 32-bit signed).  A size_t is kept as the     *)
(* two's-complement representative of its 64-bit value: a negative number  *)
(* v stands for 2^64 + v.                                                  *)
(***************************************************************************)
EXTENDS Integers, Sequences, FiniteSets, TLC

(***************************************************************************)
(* The state of one run of ecmify.                                         *)
(***************************************************************************)
VARIABLES
    pc,                     \* where ecmify is: "loop", "classify", "advance",
                            \* "report", "done", "error", "crashed"
    input_file_length,      \* the length ftello returned
    filePhase,              \* which samples the file's sectors hold
    heapKind,               \* what memory no fread filled reads as
    queue,                  \* what the queue holds: pieces [q, n, f], bytes
                            \* q..q+n-1 of the queue being file bytes f..f+n-1
    queue_start_ofs,
    queue_bytes_available,
    input_bytes_checked,
    input_bytes_queued,
    detecttype,             \* <<>> while indeterminate, <<v>> once assigned
    nondatasectors, mode0sectors, mode0errors, mode1sectors, mode1errors,
    mode2f1sectors, mode2f1errors, mode2f2sectors, mode2f2errors,
    totalsectors, totalerrors,
    sectorFrom,             \* file offset of the buffer last classified, -1
                            \* when it was not a sector of the file
    sectorKind,             \* the sample the buffer last classified held, 0
                            \* before the first classification
    \* the running EDC of the bytes queued (lines 330, 423-430)
    edcFile,                \* the bytes of the input file
    edcStart,               \* the value input_edc starts from
    edcQueued,              \* how many bytes of the file have been queued
    edcRefills,             \* how many refills queued them
    input_edc,
    \* one call of ecc_checkpq on a sector and one on the sector with one
    \* bit of its virtual byte stream inverted
    eccCase,                \* [code, base, index, bit]
    eccIntact,              \* what the call on the sector returned, -1 before it
    eccFlipped,             \* what the call on the damaged sector returned
    \* one call of ecc_checksector, read by read
    walkSite,               \* the call site: "Mode1" (line 480) or "Form1" (line 517)
    walkPc,                 \* "row", "minor", "first", "second", "returned"
    walkCall,               \* the ecc_checkpq call under way: "P" or "Q"
    walkMajor,
    walkMinor,
    walkIndex,
    walkRead                \* the array element last read: [array, at]

(***************************************************************************)
(* Bit operations of C on unsigned values.                                 *)
(***************************************************************************)
Array(f) == f \o <<>>

RECURSIVE XorBits(_, _, _)
XorBits(a, b, n) ==
    IF n = 0 THEN 0
    ELSE ((a + b) % 2) + 2 * XorBits(a \div 2, b \div 2, n - 1)

Xor4 == Array([a \in 1..16 |-> Array([b \in 1..16 |-> XorBits(a - 1, b - 1, 4)])])

\* a ^ b on uint8_t
Xor8(a, b) ==
    Xor4[(a \div 16) + 1][(b \div 16) + 1] * 16 + Xor4[(a % 16) + 1][(b % 16) + 1]

Xor16(a, b) == Xor8(a \div 256, b \div 256) * 256 + Xor8(a % 256, b % 256)

\* a ^ b on uint32_t
Xor32(a, b) == <<Xor16(a[1], b[1]), Xor16(a[2], b[2])>>

\* e >> 1 and e >> 8 on uint32_t
Shr1(e) == <<e[1] \div 2, (e[2] \div 2) + (e[1] % 2) * 32768>>

Shr8(e) == <<e[1] \div 256, (e[2] \div 256) + (e[1] % 256) * 256>>

UInt32 == (0..65535) \X (0..65535)

\* the uint32_t value of a small non-negative integer
U32(n) == <<0, n>>

\* pointers: p + k and p[i]
Ptr(arr, ofs) == <<arr, ofs>>

PtrAdd(p, k) == <<p[1], p[2] + k>>

Deref(p, i) == p[1][p[2] + i + 1]

\* the little-endian assembly of four bytes
get32lsb(src) ==
    << Deref(src, 2) + 256 * Deref(src, 3),
       Deref(src, 0) + 256 * Deref(src, 1) >>

(***************************************************************************)
(* eccedc_init: the three lookup tables.                                   *)
(***************************************************************************)
\* j = (i << 1) ^ (i & 0x80 ? 0x11D : 0)
EccShift(i) == XorBits(i * 2, IF (i \div 128) % 2 = 1 THEN 285 ELSE 0, 9)

\* ecc_f_lut[i] = j, stored in a uint8_t
ecc_f_lut == Array([k \in 1..256 |-> EccShift(k - 1) % 256])

\* ecc_b_lut[i ^ j] = i for i = 0..255 in order: the last store to a slot
\* stays, a slot never stored keeps the static array's 0
ecc_b_lut ==
    Array([x \in 1..256 |->
        LET hits == {i \in 0..255 : XorBits(i, EccShift(i), 9) = x - 1}
        IN  IF hits = {} THEN 0
            ELSE CHOOSE i \in hits : \A k \in hits : k <= i])

\* eight rounds of edc = (edc >> 1) ^ (edc & 1 ? 0xD8018001 : 0)
RECURSIVE EdcRounds(_, _)
EdcRounds(edc, j) ==
    IF j = 0 \/ edc \notin UInt32 THEN edc
    ELSE EdcRounds(Xor32(Shr1(edc),
                         IF edc[2] % 2 = 1 THEN <<55297, 32769>> ELSE <<0, 0>>),
                   j - 1)

edc_lut == Array([k \in 1..256 |-> EdcRounds(U32(k - 1), 8)])

(***************************************************************************)
(* edc_compute.  The loop body is EdcStep; the loop over `size` bytes is   *)
(* run as its first half followed by its second half, which keeps the      *)
(* evaluation shallow for a 0x91C-byte range (the test on edc makes the    *)
(* running value be evaluated at every call).                              *)
(***************************************************************************)
\* edc = (edc >> 8) ^ edc_lut[(edc ^ (*src++)) & 0xFF]
EdcStep(edc, byte) == Xor32(Shr8(edc), edc_lut[Xor8(edc[2] % 256, byte) + 1])

RECURSIVE EdcLoop(_, _, _)
EdcLoop(edc, src, size) ==
    IF size = 0 \/ edc \notin UInt32 THEN edc
    ELSE IF size = 1 THEN EdcStep(edc, Deref(src, 0))
    ELSE EdcLoop(EdcLoop(edc, src, size \div 2),
                 PtrAdd(src, size \div 2), size - (size \div 2))

\* the checksum started afresh whatever edc is handed in
edc_computeRestarted(edc, src, size) == EdcLoop(U32(0), src, size)

edc_compute(edc, src, size) == EdcLoop(edc, src, size)

(***************************************************************************)
(* ecc_checkpq and ecc_checksector.                                        *)
(***************************************************************************)
Byte == 0..255

\* index = (major >> 1) * major_mult + (major & 1)
EccStartIndex(major, major_mult) == (major \div 2) * major_mult + (major % 2)

\* index += minor_inc; if(index >= size) { index -= size; }
EccNextIndex(index, minor_inc, size) ==
    IF index + minor_inc >= size THEN index + minor_inc - size
    ELSE index + minor_inc

\* the virtual byte with the address left out
EccVirtualByteNoAddress(address, data, index) ==
    IF index < 4 THEN 0 ELSE Deref(data, index - 4)

\* temp = index < 4 ? address[index] : data[index - 4]
EccVirtualByte(address, data, index) ==
    IF index < 4 THEN Deref(address, index) ELSE Deref(data, index - 4)

\* the minor loop of one row, on the loop state <<index, ecc_a, ecc_b>>
RECURSIVE EccMinorLoop(_, _, _, _, _, _)
EccMinorLoop(address, data, size, minor_inc, st, minor_left) ==
    IF minor_left = 0 \/ st \notin (Nat \X Byte \X Byte) THEN st
    ELSE LET temp == EccVirtualByte(address, data, st[1])
         IN  EccMinorLoop(address, data, size, minor_inc,
                 << EccNextIndex(st[1], minor_inc, size),
                    ecc_f_lut[Xor8(st[2], temp) + 1],
                    Xor8(st[3], temp) >>,
                 minor_left - 1)

\* the two parity bytes a row must carry: <<ecc_a, ecc_a ^ ecc_b>> after
\* ecc_a = ecc_b_lut[ecc_f_lut[ecc_a] ^ ecc_b]
EccRowParity(address, data, major_count, minor_count, major_mult, minor_inc, major) ==
    LET st == EccMinorLoop(address, data, major_count * minor_count, minor_inc,
                           <<EccStartIndex(major, major_mult), 0, 0>>, minor_count)
        ecc_a == ecc_b_lut[Xor8(ecc_f_lut[st[2] + 1], st[3]) + 1]
    IN  <<ecc_a, Xor8(ecc_a, st[3])>>

\* 1 when every row's two stored parity bytes match, else 0
ecc_checkpq(address, data, major_count, minor_count, major_mult, minor_inc, ecc) ==
    IF \A major \in 0..(major_count - 1) :
          LET par == EccRowParity(address, data, major_count, minor_count,
                                  major_mult, minor_inc, major)
          IN  /\ Deref(ecc, major) = par[1]
              /\ Deref(ecc, major + major_count) = par[2]
    THEN 1 ELSE 0

\* major_count, minor_count, major_mult, minor_inc of the P call
PGeometry == <<86, 24, 2, 86>>

\* the Q call with one step too many in a row
QGeometryLongRow == <<52, 44, 86, 88>>

\* major_count, minor_count, major_mult, minor_inc of the Q call
QGeometry == <<52, 43, 86, 88>>

ecc_checksector(address, data, ecc) ==
    IF /\ ecc_checkpq(address, data, PGeometry[1], PGeometry[2], PGeometry[3],
                      PGeometry[4], ecc) # 0
       /\ ecc_checkpq(address, data, QGeometry[1], QGeometry[2], QGeometry[3],
                      QGeometry[4], PtrAdd(ecc, 172)) # 0
    THEN 1 ELSE 0

zeroaddress == Ptr(<<0, 0, 0, 0>>, 0)

(***************************************************************************)
(* The classification of the buffer at the head of the queue, lines        *)
(* 442-537 of ecmify, as the amounts it adds to the eleven counters.       *)
(***************************************************************************)
SectorSize == 2352

NoTally ==
    [ nondatasectors |-> 0,
      mode0sectors |-> 0, mode0errors |-> 0,
      mode1sectors |-> 0, mode1errors |-> 0,
      mode2f1sectors |-> 0, mode2f1errors |-> 0,
      mode2f2sectors |-> 0, mode2f2errors |-> 0,
      totalerrors |-> 0 ]

\* sector[0x000] == 0x00 && sector[0x001..0x00A] == 0xFF && sector[0x00B] == 0x00
SyncOk(sector) ==
    /\ Deref(sector, 0) = 0
    /\ \A i \in 1..10 : Deref(sector, i) = 255
    /\ Deref(sector, 11) = 0

\* the for loop over 0x010..0x92F: an error at the first non-zero byte
Mode0Errored(sector) == \E i \in 16..2351 : Deref(sector, i) # 0

\* the check without the test of the reserved bytes
Mode1ErroredReservedUnchecked(sector) ==
    \/ ecc_checksector(PtrAdd(sector, 12), PtrAdd(sector, 16), PtrAdd(sector, 2076)) = 0
    \/ edc_compute(U32(0), sector, 2064) # get32lsb(PtrAdd(sector, 2064))

Mode1Errored(sector) ==
    \/ ecc_checksector(PtrAdd(sector, 12), PtrAdd(sector, 16), PtrAdd(sector, 2076)) = 0
    \/ edc_compute(U32(0), sector, 2064) # get32lsb(PtrAdd(sector, 2064))
    \/ \E i \in 2068..2075 : Deref(sector, i) # 0

\* the check with the comparison of the subheader copies added
Mode2Form2ErroredCopiesChecked(m2sec) ==
    \/ edc_compute(U32(0), m2sec, 2332) # get32lsb(PtrAdd(m2sec, 2332))
    \/ \E i \in 0..3 : Deref(m2sec, i) # Deref(m2sec, 4 + i)

Mode2Form2Errored(m2sec) ==
    edc_compute(U32(0), m2sec, 2332) # get32lsb(PtrAdd(m2sec, 2332))

Mode2Form1Errored(m2sec) ==
    \/ ecc_checksector(zeroaddress, m2sec, PtrAdd(m2sec, 2060)) = 0
    \/ edc_compute(U32(0), m2sec, 2056) # get32lsb(PtrAdd(m2sec, 2056))

\* (sector[0x012] & 0x20) == 0x20
IsForm2(sector) == (Deref(sector, 18) \div 32) % 2 = 1

TallyMode0(sector) ==
    IF Mode0Errored(sector)
    THEN [NoTally EXCEPT !.mode0sectors = 1, !.mode0errors = 1, !.totalerrors = 1]
    ELSE [NoTally EXCEPT !.mode0sectors = 1]

TallyMode1(sector) ==
    IF Mode1Errored(sector)
    THEN [NoTally EXCEPT !.mode1sectors = 1, !.mode1errors = 1, !.totalerrors = 1]
    ELSE [NoTally EXCEPT !.mode1sectors = 1]

TallyMode2(sector) ==
    LET m2sec == PtrAdd(sector, 16)
    IN  IF IsForm2(sector)
        THEN IF Mode2Form2Errored(m2sec)
             THEN [NoTally EXCEPT !.mode2f2sectors = 1, !.mode2f2errors = 1]
             ELSE [NoTally EXCEPT !.mode2f2sectors = 1]
        ELSE IF Mode2Form1Errored(m2sec)
             THEN [NoTally EXCEPT !.mode2f1sectors = 1, !.mode2f1errors = 1]
             ELSE [NoTally EXCEPT !.mode2f1sectors = 1]

ClassifySector(sector) ==
    IF SyncOk(sector)
    THEN IF Deref(sector, 15) = 0 THEN TallyMode0(sector)
         ELSE IF Deref(sector, 15) = 1 THEN TallyMode1(sector)
         ELSE IF Deref(sector, 15) = 2 THEN TallyMode2(sector)
         ELSE [NoTally EXCEPT !.nondatasectors = 1]
    ELSE [NoTally EXCEPT !.nondatasectors = 1]

(***************************************************************************)
(* Sector contents the input file is made of, laid out as the source's     *)
(* header comment describes the sector types.  Parity and EDC fields are   *)
(* filled with the values the checks compute, then damaged where a sample  *)
(* is meant to be in error.                                                *)
(***************************************************************************)
\* the array with `bytes` stored at offset ofs
WithBytes(buf, ofs, bytes) ==
    SubSeq(buf, 1, ofs) \o bytes \o SubSeq(buf, ofs + Len(bytes) + 1, Len(buf))

\* the four bytes get32lsb reads back as e
Le32(e) == <<e[2] % 256, e[2] \div 256, e[1] % 256, e[1] \div 256>>

WithEdc(buf, from, size, at) ==
    WithBytes(buf, at, Le32(edc_compute(U32(0), Ptr(buf, from), size)))

\* addressOfs < 0 stands for the zero address of Mode 2
AddressOf(buf, addressOfs) ==
    IF addressOfs < 0 THEN zeroaddress ELSE Ptr(buf, addressOfs)

\* the 2 * major_count parity bytes of one code, in the order they are stored
ParityBytes(buf, addressOfs, dataOfs, major_count, minor_count, major_mult, minor_inc) ==
    Array([k \in 1..(2 * major_count) |->
        EccRowParity(AddressOf(buf, addressOfs), Ptr(buf, dataOfs),
                     major_count, minor_count, major_mult, minor_inc,
                     (k - 1) % major_count)[((k - 1) \div major_count) + 1]])

WithP(buf, addressOfs) ==
    WithBytes(buf, 2076,
        ParityBytes(buf, addressOfs, 16, PGeometry[1], PGeometry[2], PGeometry[3],
                    PGeometry[4]))

WithQ(buf, addressOfs) ==
    WithBytes(buf, 2076 + 172,
        ParityBytes(buf, addressOfs, 16, QGeometry[1], QGeometry[2], QGeometry[3],
                    QGeometry[4]))

FlipBit(buf, ofs, bit) == [buf EXCEPT ![ofs + 1] = Xor8(@, 2 ^ bit)]

SetByte(buf, ofs, byte) == [buf EXCEPT ![ofs + 1] = byte]

PatternByte(i) == (i * 7 + 3) % 256

\* sync, address 00:02:00, the mode byte, the subheader from 0x010, the
\* pattern in [dataFrom, dataTo), zero elsewhere
RawSector(mode, subheader, dataFrom, dataTo) ==
    Array([k \in 1..SectorSize |->
        LET i == k - 1
        IN  IF i = 0 \/ i = 11 THEN 0
            ELSE IF i <= 10 THEN 255
            ELSE IF i = 13 THEN 2
            ELSE IF i = 15 THEN mode
            ELSE IF i >= 16 /\ i < 16 + Len(subheader) THEN subheader[i - 15]
            ELSE IF i >= dataFrom /\ i < dataTo THEN PatternByte(i)
            ELSE 0])

Mode1RawSector == RawSector(1, <<>>, 16, 2064)

Mode1Plain == WithEdc(Mode1RawSector, 0, 2064, 2064)

Mode1WithP == WithP(Mode1Plain, 12)

Mode1Good == WithQ(Mode1WithP, 12)

Mode1BadData == FlipBit(Mode1Good, 256, 3)

Mode1ReservedSet == SetByte(Mode1Plain, 2070, 1)

Mode1ReservedSetP == WithP(Mode1ReservedSet, 12)

Mode1BadReserved == WithQ(Mode1ReservedSetP, 12)

Mode1EdcFlipped == FlipBit(Mode1Plain, 2065, 0)

Mode1EdcFlippedP == WithP(Mode1EdcFlipped, 12)

Mode1BadEdc == WithQ(Mode1EdcFlippedP, 12)

Mode1BadEcc == FlipBit(Mode1Good, 2300, 7)

Mode0Good == RawSector(0, <<>>, 0, 0)

Mode0Bad == SetByte(Mode0Good, 2351, 1)

Form1RawSector == RawSector(2, <<0, 0, 8, 0, 0, 0, 8, 0>>, 24, 2072)

Form1Plain == WithEdc(Form1RawSector, 16, 2056, 2072)

Form1WithP == WithP(Form1Plain, -1)

Form1Good == WithQ(Form1WithP, -1)

Form1Bad == FlipBit(Form1Good, 1000, 0)

\* the two subheader copies differ; EDC and ECC are computed over them as they are
Form1SplitRaw == RawSector(2, <<0, 0, 8, 0, 1, 0, 8, 0>>, 24, 2072)

Form1SplitPlain == WithEdc(Form1SplitRaw, 16, 2056, 2072)

Form1SplitP == WithP(Form1SplitPlain, -1)

Form1Split == WithQ(Form1SplitP, -1)

Form2RawSector == RawSector(2, <<0, 0, 32, 0, 0, 0, 32, 0>>, 24, 2348)

Form2Good == WithEdc(Form2RawSector, 16, 2332, 2348)

Form2Bad == FlipBit(Form2Good, 2000, 5)

Form2SplitRaw == RawSector(2, <<0, 0, 32, 0, 0, 0, 40, 0>>, 24, 2348)

Form2Split == WithEdc(Form2SplitRaw, 16, 2332, 2348)

UnknownMode == RawSector(3, <<>>, 16, 2352)

NoSync == Array([k \in 1..SectorSize |-> PatternByte(k - 1)])

ZeroFill == Array([k \in 1..SectorSize |-> 0])

Samples ==
    << ZeroFill, Mode1Good, Form2Bad, Mode0Good, Form1Split, Mode1BadReserved,
       Form1Good, Mode1BadEdc, Form2Good, Mode1BadEcc, Mode0Bad, Form1Bad,
       Mode1BadData, Form2Split, UnknownMode, NoSync >>

NumKinds == Len(Samples)

Kinds == 1..NumKinds

\* what the classification adds to the counters for each sample
KindTally == Array([k \in Kinds |-> ClassifySector(Ptr(Samples[k], 0))])

(***************************************************************************)
(* ecmify.  The input file holds whole sectors, sector k being the sample  *)
(* FileKind(k), followed by a tail of fewer than SectorSize bytes.         *)
(***************************************************************************)
\* queue_size: (size_t)(-1) - 4095, cut to 0x40000
queue_size == 262144

MaxSmallFile == 3

MaxBeyondQueue == 2

MaxTails == 2

MaxPhase == 3

MaxHeapKind == 3

MaxOverrun == 1

\* the sectors a full queue holds
QueueSectors == queue_size \div SectorSize

SectorCounts == (0..MaxSmallFile) \cup {QueueSectors + d : d \in 0..MaxBeyondQueue}

TailLens == {(t * 1000) % SectorSize : t \in 0..MaxTails}

FileLengths == {n * SectorSize + r : n \in SectorCounts, r \in TailLens}

FileKind(k) == ((k + filePhase) % NumKinds) + 1

\* the values an int8_t that was never assigned may be read as
Int8Garbage == {-128, -1, 0, 127}

Max(a, b) == IF a >= b THEN a ELSE b

Min(a, b) == IF a <= b THEN a ELSE b

\* the part of piece s inside queue bytes [a, b)
ClipTo(s, a, b) ==
    [ q |-> Max(s.q, a),
      n |-> Min(s.q + s.n, b) - Max(s.q, a),
      f |-> s.f + (Max(s.q, a) - s.q) ]

Within(pieces, a, b) ==
    {ClipTo(s, a, b) : s \in {t \in pieces : t.q < b /\ t.q + t.n > a}}

Outside(pieces, a, b) == Within(pieces, 0, a) \cup Within(pieces, b, queue_size)

\* a memmove that leaves the bytes where they are
MemMoveNothing(pieces, src, n) == pieces

\* memmove(queue, queue + src, n)
MemMove(pieces, src, n) ==
    Outside(pieces, 0, n)
        \cup {[q |-> s.q - src, n |-> s.n, f |-> s.f] : s \in Within(pieces, src, src + n)}

\* fread(queue + at, 1, n, in) at file position fileOfs
FRead(pieces, at, n, fileOfs) ==
    Outside(pieces, at, at + n) \cup {[q |-> at, n |-> n, f |-> fileOfs]}

RECURSIVE TotalLen(_)
TotalLen(pieces) ==
    IF pieces = {} THEN 0
    ELSE LET s == CHOOSE t \in pieces : TRUE
         IN  s.n + TotalLen(pieces \ {s})

\* whether queue bytes [a, a + n) are exactly file bytes [fileOfs, fileOfs + n)
Holds(pieces, a, n, fileOfs) ==
    /\ \A s \in Within(pieces, a, a + n) : s.f - s.q = fileOfs - a
    /\ TotalLen(Within(pieces, a, a + n)) = n

\* the file offset the SectorSize bytes at sector = queue + start come from,
\* -1 when they are not SectorSize consecutive file bytes
BufferFrom(pieces, start) ==
    LET parts == Within(pieces, start, start + SectorSize)
    IN  IF parts = {} THEN -1
        ELSE LET fileOfs == (CHOOSE s \in parts : TRUE).f
                            - (CHOOSE s \in parts : TRUE).q + start
             IN  IF Holds(pieces, start, SectorSize, fileOfs) THEN fileOfs ELSE -1

\* what the buffer reads as: a sector of the file, or else (memory never
\* filled, a short tail followed by it, bytes past the allocation) heapKind
BufferKind(pieces, start) ==
    LET fileOfs == BufferFrom(pieces, start)
    IN  IF fileOfs >= 0 /\ fileOfs % SectorSize = 0
        THEN FileKind(fileOfs \div SectorSize)
        ELSE heapKind

\* the bytes of the buffer the classification reads: the header alone when
\* it ends in the non-data branch, else up to the whole sector
ReadExtent(kind) == IF KindTally[kind].nondatasectors = 1 THEN 16 ELSE SectorSize

counters ==
    << nondatasectors, mode0sectors, mode0errors, mode1sectors, mode1errors,
       mode2f1sectors, mode2f1errors, mode2f2sectors, mode2f2errors, totalerrors >>

loopVars ==
    << pc, input_file_length, filePhase, heapKind, queue, queue_start_ofs,
       queue_bytes_available, input_bytes_checked, input_bytes_queued,
       detecttype, counters, totalsectors, sectorFrom, sectorKind >>

edcVars == << edcFile, edcStart, edcQueued, edcRefills, input_edc >>

eccVars == << eccCase, eccIntact, eccFlipped >>

walkVars ==
    << walkSite, walkPc, walkCall, walkMajor, walkMinor, walkIndex, walkRead >>

vars == << loopVars, edcVars, eccVars, walkVars >>

\* the parts of the state a specification leaves out
NoLoop ==
    /\ pc = "idle"
    /\ input_file_length = 0 /\ filePhase = 0 /\ heapKind = 1
    /\ queue = {}
    /\ queue_start_ofs = 0 /\ queue_bytes_available = 0
    /\ input_bytes_checked = 0 /\ input_bytes_queued = 0
    /\ detecttype = <<>>
    /\ nondatasectors = 0
    /\ mode0sectors = 0 /\ mode0errors = 0
    /\ mode1sectors = 0 /\ mode1errors = 0
    /\ mode2f1sectors = 0 /\ mode2f1errors = 0
    /\ mode2f2sectors = 0 /\ mode2f2errors = 0
    /\ totalsectors = 0 /\ totalerrors = 0
    /\ sectorFrom = -1
    /\ sectorKind = 0

NoEdc ==
    /\ edcFile = <<>> /\ edcStart = <<0, 0>> /\ edcQueued = 0 /\ edcRefills = 0
    /\ input_edc = <<0, 0>>

NoEcc ==
    /\ eccCase = [code |-> "none", base |-> 0, index |-> 0, bit |-> 0]
    /\ eccIntact = -1 /\ eccFlipped = -1

NoWalk ==
    /\ walkSite = "none" /\ walkPc = "returned" /\ walkCall = "none"
    /\ walkMajor = 0 /\ walkMinor = 0 /\ walkIndex = 0
    /\ walkRead = [array |-> "none", at |-> 0]

\* after the file is opened, its length taken and the counters reset
Init ==
    /\ NoEdc /\ NoEcc /\ NoWalk
    /\ pc = "loop"
    /\ input_file_length \in FileLengths
    /\ filePhase \in 0..MaxPhase
    /\ heapKind \in 1..MaxHeapKind
    /\ queue = {}
    /\ queue_start_ofs = 0
    /\ queue_bytes_available = 0
    /\ input_bytes_checked = 0
    /\ input_bytes_queued = 0
    /\ detecttype = <<>>
    /\ nondatasectors = 0
    /\ mode0sectors = 0 /\ mode0errors = 0
    /\ mode1sectors = 0 /\ mode1errors = 0
    /\ mode2f1sectors = 0 /\ mode2f1errors = 0
    /\ mode2f2sectors = 0 /\ mode2f2errors = 0
    /\ totalsectors = 0 /\ totalerrors = 0
    /\ sectorFrom = -1
    /\ sectorKind = 0

\* (queue_bytes_available < 2352) &&
\* (((off_t)queue_bytes_available) < (input_file_length - input_bytes_queued))
NeedsRefill ==
    /\ queue_bytes_available >= 0 /\ queue_bytes_available < 2352
    /\ queue_bytes_available < input_file_length - input_bytes_queued

WillRead ==
    Min(input_file_length - input_bytes_queued, queue_size - queue_bytes_available)

\* lines 434-440: detecttype is assigned only when the queue is empty
DetectAfter(available) == IF available = 0 THEN <<-1>> ELSE <<>>

\* lines 396-440, the read succeeding
Refill ==
    /\ pc = "loop"
    /\ NeedsRefill
    /\ queue' = FRead(IF queue_start_ofs > 0
                      THEN MemMove(queue, queue_start_ofs, queue_bytes_available)
                      ELSE queue,
                      queue_bytes_available, WillRead, input_bytes_queued)
    /\ queue_start_ofs' = 0
    /\ input_bytes_queued' = input_bytes_queued + WillRead
    /\ queue_bytes_available' = queue_bytes_available + WillRead
    /\ detecttype' = DetectAfter(queue_bytes_available + WillRead)
    /\ pc' = "classify"
    /\ UNCHANGED << edcVars, eccVars, walkVars >>
    /\ UNCHANGED << input_file_length, filePhase, heapKind, input_bytes_checked,
                    counters, totalsectors, sectorFrom, sectorKind >>

\* lines 416-421: fseeko or fread fails, goto error_in
ReadFails ==
    /\ pc = "loop"
    /\ NeedsRefill
    /\ pc' = "error"
    /\ UNCHANGED << edcVars, eccVars, walkVars >>
    /\ UNCHANGED << input_file_length, filePhase, heapKind, queue, queue_start_ofs,
                    queue_bytes_available, input_bytes_checked, input_bytes_queued,
                    detecttype, counters, totalsectors, sectorFrom, sectorKind >>

\* lines 396-440 when the queue is not refilled
NoRefill ==
    /\ pc = "loop"
    /\ ~NeedsRefill
    /\ detecttype' = DetectAfter(queue_bytes_available)
    /\ pc' = "classify"
    /\ UNCHANGED << edcVars, eccVars, walkVars >>
    /\ UNCHANGED << input_file_length, filePhase, heapKind, queue, queue_start_ofs,
                    queue_bytes_available, input_bytes_checked, input_bytes_queued,
                    counters, totalsectors, sectorFrom, sectorKind >>

\* the counters after the classification of a buffer holding sample `kind`
Tallied(kind) ==
    /\ nondatasectors' = nondatasectors + KindTally[kind].nondatasectors
    /\ mode0sectors' = mode0sectors + KindTally[kind].mode0sectors
    /\ mode0errors' = mode0errors + KindTally[kind].mode0errors
    /\ mode1sectors' = mode1sectors + KindTally[kind].mode1sectors
    /\ mode1errors' = mode1errors + KindTally[kind].mode1errors
    /\ mode2f1sectors' = mode2f1sectors + KindTally[kind].mode2f1sectors
    /\ mode2f1errors' = mode2f1errors + KindTally[kind].mode2f1errors
    /\ mode2f2sectors' = mode2f2sectors + KindTally[kind].mode2f2sectors
    /\ mode2f2errors' = mode2f2errors + KindTally[kind].mode2f2errors
    /\ totalerrors' = totalerrors + KindTally[kind].totalerrors

\* whether the classification reads past the end of the allocation
ReadsPastQueue ==
    queue_start_ofs + ReadExtent(BufferKind(queue, queue_start_ofs)) > queue_size

\* lines 442-537: the buffer at queue + queue_start_ofs is classified,
\* whatever queue_bytes_available is
Classify ==
    /\ pc = "classify"
    /\ queue_start_ofs + SectorSize <= queue_size + MaxOverrun * SectorSize
    /\ Tallied(BufferKind(queue, queue_start_ofs))
    /\ sectorKind' = BufferKind(queue, queue_start_ofs)
    /\ sectorFrom' = BufferFrom(queue, queue_start_ofs)
    /\ pc' = "advance"
    /\ UNCHANGED << edcVars, eccVars, walkVars >>
    /\ UNCHANGED << input_file_length, filePhase, heapKind, queue, queue_start_ofs,
                    queue_bytes_available, input_bytes_checked, input_bytes_queued,
                    detecttype, totalsectors >>

\* a read past the allocation may also end the process
Crash ==
    /\ pc = "classify"
    /\ ReadsPastQueue
    /\ pc' = "crashed"
    /\ UNCHANGED << edcVars, eccVars, walkVars >>
    /\ UNCHANGED << input_file_length, filePhase, heapKind, queue, queue_start_ofs,
                    queue_bytes_available, input_bytes_checked, input_bytes_queued,
                    detecttype, counters, totalsectors, sectorFrom, sectorKind >>

\* the values line 543 may read detecttype as
DetectRead == IF detecttype = <<>> THEN Int8Garbage ELSE {detecttype[1]}

\* line 543: if(detecttype < 0) { break; }
Break ==
    /\ pc = "advance"
    /\ \E d \in DetectRead : d < 0
    /\ pc' = "report"
    /\ UNCHANGED << edcVars, eccVars, walkVars >>
    /\ UNCHANGED << input_file_length, filePhase, heapKind, queue, queue_start_ofs,
                    queue_bytes_available, input_bytes_checked, input_bytes_queued,
                    detecttype, counters, totalsectors, sectorFrom, sectorKind >>

\* lines 548-551; queue_bytes_available -= 2352 wraps below 0
Advance ==
    /\ pc = "advance"
    /\ \E d \in DetectRead : d >= 0
    /\ totalsectors' = totalsectors + 1
    /\ input_bytes_checked' = input_bytes_checked + 2352
    /\ queue_start_ofs' = queue_start_ofs + 2352
    /\ queue_bytes_available' = queue_bytes_available - 2352
    /\ detecttype' = <<>>
    /\ pc' = "loop"
    /\ UNCHANGED << edcVars, eccVars, walkVars >>
    /\ UNCHANGED << input_file_length, filePhase, heapKind, queue,
                    input_bytes_queued, counters, sectorFrom, sectorKind >>

\* lines 557-574
Report ==
    /\ pc = "report"
    /\ totalsectors' = totalsectors + 1
    /\ pc' = "done"
    /\ UNCHANGED << edcVars, eccVars, walkVars >>
    /\ UNCHANGED << input_file_length, filePhase, heapKind, queue, queue_start_ofs,
                    queue_bytes_available, input_bytes_checked, input_bytes_queued,
                    detecttype, counters, sectorFrom, sectorKind >>

Next ==
    \/ Refill
    \/ ReadFails
    \/ NoRefill
    \/ Classify
    \/ Crash
    \/ Break
    \/ Advance
    \/ Report

Spec == Init /\ [][Next]_vars

(***************************************************************************)
(* The running EDC of ecmify: input_edc starts at 0 (line 330) and every   *)
(* refill folds the bytes it read into it (lines 423-427).  Here the file  *)
(* is a short byte sequence, a refill reads any number of its remaining    *)
(* bytes, and the EDC may start from other values than 0.                  *)
(***************************************************************************)
MaxEdcLen == 4

EdcBytes == {0, 1, 128, 255}

EdcStarts == {<<0, 0>>, <<65535, 65535>>, <<4660, 32769>>}

RECURSIVE EdcFiles(_)
EdcFiles(len) ==
    IF len = 0 THEN {<<>>}
    ELSE {<<>>} \cup {<<b>> \o f : b \in EdcBytes, f \in EdcFiles(len - 1)}

InitEdc ==
    /\ NoLoop /\ NoEcc /\ NoWalk
    /\ edcFile \in EdcFiles(MaxEdcLen)
    /\ edcStart \in EdcStarts
    /\ edcQueued = 0
    /\ edcRefills = 0
    /\ input_edc = edcStart

\* lines 423-430 with willread > 0
EdcRefill ==
    /\ \E willread \in 1..(Len(edcFile) - edcQueued) :
          /\ input_edc' = edc_compute(input_edc, Ptr(edcFile, edcQueued), willread)
          /\ edcQueued' = edcQueued + willread
    /\ edcRefills' = edcRefills + 1
    /\ UNCHANGED << edcFile, edcStart >>
    /\ UNCHANGED << loopVars, eccVars, walkVars >>

NextEdc == EdcRefill

SpecEdc == InitEdc /\ [][NextEdc]_vars

(***************************************************************************)
(* ecc_checkpq called for the P or the Q code of a sector, and called      *)
(* again with one bit of one byte of the virtual byte stream (the four     *)
(* address bytes, then data) inverted and the stored parity of that code   *)
(* as it was.                                                              *)
(***************************************************************************)
MaxFlips == 24

\* the sectors ecc_checkpq is called on, with the offset of the address in
\* them (-1: zeroaddress)
EccBases ==
    << [buf |-> Mode1Good, addressOfs |-> 12],
       [buf |-> Form1Good, addressOfs |-> -1],
       [buf |-> Mode1BadEcc, addressOfs |-> 12] >>

EccCodes == {"P", "Q"}

EccGeometry(code) == IF code = "P" THEN PGeometry ELSE QGeometry

\* where ecc_checksector hands the code's parity to ecc_checkpq
EccParityOfs(code) == IF code = "P" THEN 2076 ELSE 2076 + 172

\* size = major_count * minor_count
EccSize(code) == EccGeometry(code)[1] * EccGeometry(code)[2]

FlipIndices(size) ==
    {0, 3, 4, size - 1} \cup {(k * 211) % size : k \in 1..MaxFlips}

\* the four address bytes of a base, as an array of their own
EccAddressBytes(base) ==
    IF EccBases[base].addressOfs < 0 THEN <<0, 0, 0, 0>>
    ELSE SubSeq(EccBases[base].buf, EccBases[base].addressOfs + 1,
                EccBases[base].addressOfs + 4)

EccCall(code, address, buf) ==
    ecc_checkpq(Ptr(address, 0), Ptr(buf, 16),
                EccGeometry(code)[1], EccGeometry(code)[2],
                EccGeometry(code)[3], EccGeometry(code)[4],
                Ptr(buf, EccParityOfs(code)))

InitEcc ==
    /\ NoLoop /\ NoEdc /\ NoWalk
    /\ eccCase \in { [code |-> c, base |-> b, index |-> i, bit |-> t] :
                       c \in EccCodes, b \in 1..Len(EccBases),
                       i \in FlipIndices(EccSize("P")) \cup FlipIndices(EccSize("Q")),
                       t \in 0..7 }
    /\ eccCase.index \in FlipIndices(EccSize(eccCase.code))
    /\ eccIntact = -1
    /\ eccFlipped = -1

\* the call on the sector as it is
EccCheckIntact ==
    /\ eccCase.code # "none"
    /\ eccIntact = -1
    /\ eccIntact' = EccCall(eccCase.code, EccAddressBytes(eccCase.base),
                            EccBases[eccCase.base].buf)
    /\ UNCHANGED << eccCase, eccFlipped >>
    /\ UNCHANGED << loopVars, edcVars, walkVars >>

\* the call with bit eccCase.bit of virtual byte eccCase.index inverted
EccCheckFlipped ==
    /\ eccCase.code # "none"
    /\ eccIntact # -1
    /\ eccFlipped = -1
    /\ eccFlipped' =
          IF eccCase.index < 4
          THEN EccCall(eccCase.code,
                       FlipBit(EccAddressBytes(eccCase.base), eccCase.index, eccCase.bit),
                       EccBases[eccCase.base].buf)
          ELSE EccCall(eccCase.code, EccAddressBytes(eccCase.base),
                       FlipBit(EccBases[eccCase.base].buf, 16 + eccCase.index - 4,
                               eccCase.bit))
    /\ UNCHANGED << eccCase, eccIntact >>
    /\ UNCHANGED << loopVars, edcVars, walkVars >>

NextEcc ==
    \/ EccCheckIntact
    \/ EccCheckFlipped

SpecEcc == InitEcc /\ [][NextEcc]_vars

(***************************************************************************)
(* One call of ecc_checksector followed read by read: which element of     *)
(* address, data and ecc each step of ecc_checkpq reads.  Whether a stored *)
(* parity byte matches is left open, so the walk also takes the early      *)
(* return of line 166.                                                     *)
(***************************************************************************)
WalkSites == {"Mode1", "Form1"}

WalkGeometry == EccGeometry(walkCall)

\* the ecc argument of the call under way, as an offset into the ecc
\* argument of ecc_checksector
WalkEccOfs == IF walkCall = "P" THEN 0 ELSE 172

InitWalk ==
    /\ NoLoop /\ NoEdc /\ NoEcc
    /\ walkSite \in WalkSites
    /\ walkPc = "row"
    /\ walkCall = "P"
    /\ walkMajor = 0
    /\ walkMinor = 0
    /\ walkIndex = 0
    /\ walkRead = [array |-> "none", at |-> 0]

\* line 143 with major < major_count, lines 144-147
WalkRowStart ==
    /\ walkPc = "row"
    /\ walkMajor < WalkGeometry[1]
    /\ walkIndex' = EccStartIndex(walkMajor, WalkGeometry[3])
    /\ walkMinor' = 0
    /\ walkPc' = "minor"
    /\ UNCHANGED << walkSite, walkCall, walkMajor, walkRead >>
    /\ UNCHANGED << loopVars, edcVars, eccVars >>

\* lines 148-160, one pass of the minor loop
WalkMinorStep ==
    /\ walkPc = "minor"
    /\ walkMinor < WalkGeometry[2]
    /\ walkRead' = IF walkIndex < 4 THEN [array |-> "address", at |-> walkIndex]
                   ELSE [array |-> "data", at |-> walkIndex - 4]
    /\ walkIndex' = EccNextIndex(walkIndex, WalkGeometry[4],
                                 WalkGeometry[1] * WalkGeometry[2])
    /\ walkMinor' = walkMinor + 1
    /\ UNCHANGED << walkSite, walkPc, walkCall, walkMajor >>
    /\ UNCHANGED << loopVars, edcVars, eccVars >>

\* lines 161-163: ecc[major] is compared
WalkCompareFirst ==
    /\ walkPc = "minor"
    /\ walkMinor = WalkGeometry[2]
    /\ walkRead' = [array |-> "ecc", at |-> WalkEccOfs + walkMajor]
    /\ \E match \in BOOLEAN : walkPc' = IF match THEN "second" ELSE "returned"
    /\ UNCHANGED << walkSite, walkCall, walkMajor, walkMinor, walkIndex >>
    /\ UNCHANGED << loopVars, edcVars, eccVars >>

\* lines 164-167: ecc[major + major_count] is compared
WalkCompareSecond ==
    /\ walkPc = "second"
    /\ walkRead' = [array |-> "ecc", at |-> WalkEccOfs + walkMajor + WalkGeometry[1]]
    /\ \E match \in BOOLEAN :
          /\ walkPc' = IF match THEN "row" ELSE "returned"
          /\ walkMajor' = IF match THEN walkMajor + 1 ELSE walkMajor
    /\ UNCHANGED << walkSite, walkCall, walkMinor, walkIndex >>
    /\ UNCHANGED << loopVars, edcVars, eccVars >>

\* line 169 of the P call, then the Q call of line 183
WalkNextCall ==
    /\ walkPc = "row"
    /\ walkCall = "P"
    /\ walkMajor = WalkGeometry[1]
    /\ walkCall' = "Q"
    /\ walkMajor' = 0
    /\ UNCHANGED << walkSite, walkPc, walkMinor, walkIndex, walkRead >>
    /\ UNCHANGED << loopVars, edcVars, eccVars >>

\* line 169 of the Q call
WalkReturn ==
    /\ walkPc = "row"
    /\ walkCall = "Q"
    /\ walkMajor = WalkGeometry[1]
    /\ walkPc' = "returned"
    /\ UNCHANGED << walkSite, walkCall, walkMajor, walkMinor, walkIndex, walkRead >>
    /\ UNCHANGED << loopVars, edcVars, eccVars >>

NextWalk ==
    \/ WalkRowStart
    \/ WalkMinorStep
    \/ WalkCompareFirst
    \/ WalkCompareSecond
    \/ WalkNextCall
    \/ WalkReturn

SpecWalk == InitWalk /\ [][NextWalk]_vars

\* where in the sector buffer the element last read lies, the buffer being
\* sector at the Mode 1 call site and m2sec at the Form 1 call site; -1 for
\* an element of zeroaddress
WalkBufferOfs ==
    IF walkRead.array = "address"
    THEN IF walkSite = "Mode1" THEN 12 + walkRead.at ELSE -1
    ELSE IF walkRead.array = "data"
    THEN IF walkSite = "Mode1" THEN 16 + walkRead.at ELSE walkRead.at
    ELSE IF walkSite = "Mode1" THEN 2076 + walkRead.at ELSE 2060 + walkRead.at

(***************************************************************************)
(* What the claims say of ecmify.                                          *)
(***************************************************************************)
\* the step in which the buffer at the head of the queue is classified
ClassifyStep == pc = "classify" /\ pc' = "advance"

SeenSum ==
    nondatasectors + mode0sectors + mode1sectors + mode2f1sectors + mode2f2sectors

OnlyNonDataTallied ==
    /\ nondatasectors' = nondatasectors + 1
    /\ mode0sectors' = mode0sectors /\ mode0errors' = mode0errors
    /\ mode1sectors' = mode1sectors /\ mode1errors' = mode1errors
    /\ mode2f1sectors' = mode2f1sectors /\ mode2f1errors' = mode2f1errors
    /\ mode2f2sectors' = mode2f2sectors /\ mode2f2errors' = mode2f2errors
    /\ totalerrors' = totalerrors

\* the sync pattern, read byte by byte
HasSync(k) ==
    <<Samples[k][1], Samples[k][2], Samples[k][3], Samples[k][4], Samples[k][5],
      Samples[k][6], Samples[k][7], Samples[k][8], Samples[k][9], Samples[k][10],
      Samples[k][11], Samples[k][12]>>
        = <<0, 255, 255, 255, 255, 255, 255, 255, 255, 255, 255, 0>>

\* per sample: the checks the claims name, taken on the bytes
SampleChecks ==
    Array([k \in Kinds |->
        [ sync |-> HasSync(k),
          mode |-> Samples[k][16],
          eccFails |-> ecc_checksector(Ptr(Samples[k], 12), Ptr(Samples[k], 16),
                                       Ptr(Samples[k], 2076)) = 0,
          edcFails |-> edc_compute(U32(0), Ptr(Samples[k], 0), 2064)
                          # get32lsb(Ptr(Samples[k], 2064)),
          reservedFails |-> SubSeq(Samples[k], 2069, 2076) # <<0, 0, 0, 0, 0, 0, 0, 0>>,
          subheadersDiffer |-> SubSeq(Samples[k], 17, 20) # SubSeq(Samples[k], 21, 24),
          form2 |-> (Samples[k][19] \div 32) % 2 = 1,
          form2EdcFails |-> edc_compute(U32(0), Ptr(Samples[k], 16), 2332)
                               # get32lsb(Ptr(Samples[k], 2348)),
          form1EccFails |-> ecc_checksector(zeroaddress, Ptr(Samples[k], 16),
                                            Ptr(Samples[k], 2076)) = 0,
          form1EdcFails |-> edc_compute(U32(0), Ptr(Samples[k], 16), 2056)
                               # get32lsb(Ptr(Samples[k], 2072)) ]])

HeadChecks == SampleChecks[BufferKind(queue, queue_start_ofs)]

\* C1 (as claimed): for a file of exactly N complete sectors, at the report
\* the five seen-counters sum to N and the total sector count is N.
C1_OneTallyPerSector ==
    (pc = "done" /\ input_file_length % SectorSize = 0)
        => /\ SeenSum = input_file_length \div SectorSize
           /\ totalsectors = input_file_length \div SectorSize

\* C2 (as claimed): at the report the total error count is the sum of the
\* four per-category error counts.
C2_TotalErrorsIsSum ==
    pc = "done"
        => totalerrors = mode0errors + mode1errors + mode2f1errors + mode2f2errors

\* C3: a buffer with the sync pattern and mode byte 1 is counted as Mode 1,
\* and as errored (once) exactly when the ECC check, the EDC check or the
\* zero test of the eight reserved bytes fails.
C3_Mode1Tally ==
    [][ (ClassifyStep /\ HeadChecks.sync /\ HeadChecks.mode = 1)
          => /\ mode1sectors' = mode1sectors + 1
             /\ nondatasectors' = nondatasectors
             /\ mode1errors' - mode1errors
                  = IF HeadChecks.eccFails \/ HeadChecks.edcFails \/ HeadChecks.reservedFails
                    THEN 1 ELSE 0
             /\ totalerrors' - totalerrors = mode1errors' - mode1errors ]_vars

\* a Mode 1 sector whose only fault is a non-zero reserved byte has just been
\* classified and counted as errored
C3_Witness ==
    /\ pc = "advance"
    /\ sectorKind # 0
    /\ SampleChecks[IF sectorKind = 0 THEN 1 ELSE sectorKind].sync
    /\ SampleChecks[IF sectorKind = 0 THEN 1 ELSE sectorKind].mode = 1
    /\ SampleChecks[IF sectorKind = 0 THEN 1 ELSE sectorKind].reservedFails
    /\ ~SampleChecks[IF sectorKind = 0 THEN 1 ELSE sectorKind].eccFails
    /\ ~SampleChecks[IF sectorKind = 0 THEN 1 ELSE sectorKind].edcFails
    /\ mode1errors >= 1
    /\ mode1sectors > mode1errors

\* C4 (as claimed): when fewer than 2352 bytes remain in the queue at the end
\* of input, what is classified is tallied NonData and nothing else.
C4_TailIsNonData ==
    [][ (ClassifyStep /\ queue_bytes_available >= 0 /\ queue_bytes_available < SectorSize)
          => OnlyNonDataTallied ]_vars

\* C5 (as claimed): queue_bytes_available never goes below 0, and the run is
\* not cut short inside the loop.
C5_LoopEndsNoWrap == queue_bytes_available >= 0 /\ pc # "crashed"

\* C6 (as claimed): a sector with sync and mode byte 2 whose two subheader
\* copies differ is tallied NonData or with an error in its Mode 2 category.
C6_SplitSubheaderNotIntact ==
    [][ (ClassifyStep /\ HeadChecks.sync /\ HeadChecks.mode = 2 /\ HeadChecks.subheadersDiffer)
          => \/ nondatasectors' = nondatasectors + 1
             \/ mode2f1errors' = mode2f1errors + 1
             \/ mode2f2errors' = mode2f2errors + 1 ]_vars

\* C6 (amended): a sector with sync and mode byte 2 is tallied as Form 2 when
\* bit 0x20 of byte 0x12 is set and as Form 1 otherwise, and as errored in
\* that category exactly when its EDC (Form 2) or its ECC or EDC (Form 1)
\* fails; the second subheader copy takes no part, so a sector whose copies
\* differ and whose EDC and ECC match is tallied intact.
C6_Mode2TallyIgnoresCopies ==
    [][ (ClassifyStep /\ HeadChecks.sync /\ HeadChecks.mode = 2)
          => /\ nondatasectors' = nondatasectors
             /\ mode2f2sectors' - mode2f2sectors = IF HeadChecks.form2 THEN 1 ELSE 0
             /\ mode2f1sectors' - mode2f1sectors = IF HeadChecks.form2 THEN 0 ELSE 1
             /\ mode2f2errors' - mode2f2errors
                  = IF HeadChecks.form2 /\ HeadChecks.form2EdcFails THEN 1 ELSE 0
             /\ mode2f1errors' - mode2f1errors
                  = IF ~HeadChecks.form2
                       /\ (HeadChecks.form1EccFails \/ HeadChecks.form1EdcFails)
                    THEN 1 ELSE 0 ]_vars

\* a Mode 2 sector whose subheader copies differ has just been classified
\* and no Mode 2 error has been counted
C6_Witness ==
    /\ pc = "advance"
    /\ sectorKind # 0
    /\ SampleChecks[IF sectorKind = 0 THEN 1 ELSE sectorKind].sync
    /\ SampleChecks[IF sectorKind = 0 THEN 1 ELSE sectorKind].mode = 2
    /\ SampleChecks[IF sectorKind = 0 THEN 1 ELSE sectorKind].subheadersDiffer
    /\ mode2f1sectors + mode2f2sectors >= 1
    /\ mode2f1errors = 0
    /\ mode2f2errors = 0

\* C10: over a file of complete sectors the window of the queue lies inside
\* the allocation and holds file bytes [input_bytes_checked,
\* input_bytes_queued) in order, and the buffer classified while sectors
\* remain is the next sector of the file.
C10_QueueWindow ==
    input_file_length % SectorSize = 0
        => /\ queue_bytes_available >= 0
           /\ queue_start_ofs + queue_bytes_available <= queue_size
           /\ input_bytes_queued - input_bytes_checked = queue_bytes_available
           /\ input_bytes_queued <= input_file_length
           /\ Holds(queue, queue_start_ofs, queue_bytes_available, input_bytes_checked)
           /\ (pc = "advance" /\ input_bytes_checked < input_file_length)
                 => sectorFrom = input_bytes_checked

\* a sector read by the second fill, behind bytes memmove carried over, has
\* been classified
C10_Witness ==
    /\ input_file_length % SectorSize = 0
    /\ pc = "advance"
    /\ input_bytes_checked > queue_size
    /\ sectorFrom = input_bytes_checked
    /\ queue_start_ofs > 0

(***************************************************************************)
(* What the claims say of edc_compute, ecc_checkpq and ecc_checksector.    *)
(***************************************************************************)
\* C7: when ecc_checkpq returns true for the P or the Q code of a sector, it
\* returns false once one bit of one byte of the virtual byte stream is
\* inverted and the stored parity of the code is left as it was.
C7_SingleBitDetected ==
    (eccIntact = 1 /\ eccFlipped # -1) => eccFlipped = 0

\* an inverted bit in the last byte the Q code covers has been detected
C7_Witness ==
    /\ eccCase.code = "Q"
    /\ eccCase.index = EccSize("Q") - 1
    /\ eccIntact = 1
    /\ eccFlipped = 0

\* C8: however the bytes of the file are split into refills, the running
\* EDC is edc_compute of the starting value over all the bytes queued.
C8_EdcComposes ==
    input_edc = edc_compute(edcStart, Ptr(edcFile, 0), edcQueued)

\* a file queued whole by more than one refill, the EDC starting at 0
C8_Witness ==
    /\ edcStart = <<0, 0>>
    /\ Len(edcFile) >= 3
    /\ edcQueued = Len(edcFile)
    /\ edcRefills >= 2
    /\ input_edc # edcStart

\* C9 (as claimed): every element of data the check reads lies in the first
\* 0x800 bytes of data.
C9_ReadsOnlyPayload ==
    walkRead.array = "data" => walkRead.at < 2048

\* C9 (amended): the P call reads data[0..0x80C) and the Q call reads
\* data[0..0x8B8), so at the Mode 1 call site the check reads
\* sector[0xC..0x8C8) as address and data and sector[0x81C..0x930) as parity
\* (EDC, reserved bytes and P parity are read as data), and at the Form 1 call
\* site m2sec[0..0x8B8) as data and m2sec[0x80C..0x920) as parity.
C9_ReadsWholeCode ==
    /\ walkRead.array = "address" => walkRead.at < 4
    /\ (walkRead.array = "data" /\ walkCall = "P") => walkRead.at < 2060
    /\ (walkRead.array = "data" /\ walkCall = "Q") => walkRead.at < 2232
    /\ (walkRead.array = "ecc" /\ walkSite = "Mode1")
          => (WalkBufferOfs >= 2076 /\ WalkBufferOfs < 2352)
    /\ (walkRead.array = "ecc" /\ walkSite = "Form1")
          => (WalkBufferOfs >= 2060 /\ WalkBufferOfs < 2336)
    /\ (walkRead.array \in {"address", "data"} /\ walkSite = "Mode1")
          => (WalkBufferOfs >= 12 /\ WalkBufferOfs < 2248)
    /\ (walkRead.array = "data" /\ walkSite = "Form1")
          => (WalkBufferOfs >= 0 /\ WalkBufferOfs < 2232)

\* the Q call at the Mode 1 call site has read the last byte of the P parity
\* as data
C9_Witness ==
    /\ walkSite = "Mode1"
    /\ walkCall = "Q"
    /\ walkRead = [array |-> "data", at |-> 2231]

=============================================================================
